---------------------------- MODULE Spec2Model ----------------------------
(***************************************************************************)
(* Take-off and landing maneuver integrators of flight_mech/maneuver.py.   *)
(*                                                                         *)
(* Numbers are fixed-point integers:                                       *)
(*   time      seconds                 angles   units of 6 degrees         *)
(*   speed     m/s                     lengths  m                          *)
(*   mass      tonnes                  forces   kN                         *)
(*   density   g/m^3                   coefficients  hundredths            *)
(*   parachute surface  hundredths of m^2                                  *)
(* Python's true division is truncated to these units (\div).              *)
(***************************************************************************)
EXTENDS Integers, Sequences, FiniteSets, TLC

VARIABLES kind, self, args, pc, lists, rotation_start_time, flight_start_time,
          braking_start_time, stop_time, calls, outcome, first_run

vars == <<kind, self, args, pc, lists, rotation_start_time, flight_start_time,
          braking_start_time, stop_time, calls, outcome, first_run>>

(***************************************************************************)
(* Bounds of the model                                                     *)
(***************************************************************************)
\* largest iteration cap given to an instance
MaxIterations == 16
\* number of successive compute_evolution calls on one instance
MaxCalls == 2

(***************************************************************************)
(* Values standing for Python's None and for an attribute never assigned   *)
(***************************************************************************)
None == -1
Absent == -2

(***************************************************************************)
(* Fixed-point scales                                                      *)
(***************************************************************************)
TrigScale == 10
CoefScale == 100
UnitsPerRad == 10

\* np.sin over one quarter turn, angle in units of 6 degrees, scaled by TrigScale
SinTable == <<0, 1, 2, 3, 4, 5, 6, 7, 7, 8, 9, 9, 10, 10, 10, 10>>

\* np.sin
Sin(a) ==
    LET r == a % 60
    IN  IF r <= 15 THEN SinTable[r + 1]
        ELSE IF r <= 30 THEN SinTable[30 - r + 1]
        ELSE IF r <= 45 THEN 0 - SinTable[r - 30 + 1]
        ELSE 0 - SinTable[60 - r + 1]

\* np.cos
Cos(a) == Sin(a + 15)

\* Python min and max of two numbers
Min(a, b) == IF a <= b THEN a ELSE b
Max(a, b) == IF a >= b THEN a ELSE b

(***************************************************************************)
(* Atmosphere (flight_mech/atmosphere.py, LinearAtmosphere)                *)
(***************************************************************************)
rho_0 == 1225

\* sigma = (20 - z / 1e3) / (20 + z / 1e3); rho = rho_0 * sigma
compute_density_from_altitude(z) == (rho_0 * (20000 - z)) \div (20000 + z)

(***************************************************************************)
(* Aircraft performance model (flight_mech/plane.py is an external         *)
(* collaborator: pure functions of the configured coefficients)            *)
(***************************************************************************)
Planes ==
    { [m |-> mm, P |-> 10 * mm, S |-> 62, C_D_0 |-> 2, C_L_alpha |-> 39,
       alpha_0 |-> 0 - 1, k |-> 12, alpha_stall |-> st, thrust_0 |-> th]
      : mm \in {18, 25}, st \in {0 - 1, 0, 2, 4}, th \in {0, 245} }

C_L(plane, alpha) == plane.C_L_alpha * (alpha - plane.alpha_0)

C_D(plane, alpha) ==
    plane.C_D_0 + (plane.k * C_L(plane, alpha) * C_L(plane, alpha)) \div (CoefScale * CoefScale)

\* dynamic pressure 1/2 rho v^2, in Pa
DynamicPressure(v, z) == (compute_density_from_altitude(z) * v * v) \div 2000

compute_lift(plane, v, z, alpha) ==
    (DynamicPressure(v, z) * plane.S * C_L(plane, alpha)) \div (1000 * CoefScale)

compute_drag(plane, v, z, alpha) ==
    (DynamicPressure(v, z) * plane.S * C_D(plane, alpha)) \div (1000 * CoefScale)

compute_thrust(plane, z) == (plane.thrust_0 * compute_density_from_altitude(z)) \div rho_0

(***************************************************************************)
(* Thrust schedules: multiplier `before` until time `cut`, `after` from it *)
(* until time `resume`, and `before` again from then on                    *)
(***************************************************************************)
TakeOffSchedules ==
    { [before |-> 1, cut |-> 1000, after |-> 1, resume |-> 1000],
      [before |-> 0, cut |-> 1000, after |-> 0, resume |-> 1000],
      [before |-> 1, cut |-> 4, after |-> 0, resume |-> 1000],
      [before |-> 1, cut |-> 7, after |-> 0, resume |-> 1000],
      [before |-> 1, cut |-> 9, after |-> 0, resume |-> 21],
      [before |-> 1, cut |-> 4, after |-> 0, resume |-> 12] }

\* schedules given to a landing: idle, engine cut, thrust reversal
LandingSchedules ==
    { [before |-> 0, cut |-> 1000, after |-> 0, resume |-> 1000],
      [before |-> 1, cut |-> 4, after |-> 0, resume |-> 1000],
      [before |-> 0, cut |-> 3, after |-> 0 - 1, resume |-> 1000] }

thrust_evolution_function(s, t) ==
    IF t < s.thrust_evolution_function.cut \/ t >= s.thrust_evolution_function.resume
    THEN s.thrust_evolution_function.before
    ELSE s.thrust_evolution_function.after

(***************************************************************************)
(* TakeOffManeuver                                                         *)
(***************************************************************************)
\* time step and iteration cap given to an instance by its caller
DtValues == {1, 2}
NbMaxIterationsValues == {1, 2, 6, 13, MaxIterations}

\* class attributes dt and nb_max_iterations, which the caller overwrites
DefaultDt == 1
DefaultNbMaxIterations == MaxIterations

\* take_off_maneuver.nb_max_iterations = ...; take_off_maneuver.dt = ...
Configure(s, dt, nb_max_iterations) ==
    [s EXCEPT !.dt = dt, !.nb_max_iterations = nb_max_iterations]

\* class attribute air_rotation_speed = 1.0 rad.s-1
air_rotation_speed == UnitsPerRad

\* TakeOffManeuver.__init__; end_take_off_altitude is None when not passed
TakeOffManeuver(plane_model, rotation_speed, rotation_sequence_trigger_speed, schedule, ground_friction_coefficient, max_ground_angle_of_incidence, ground_altitude, end_take_off_altitude) ==
    [plane_model |-> plane_model,
     ground_rotation_speed |-> rotation_speed,
     thrust_evolution_function |-> schedule,
     rotation_sequence_trigger_speed |-> rotation_sequence_trigger_speed,
     ground_friction_coefficient |-> ground_friction_coefficient,
     max_ground_angle_of_incidence |-> max_ground_angle_of_incidence,
     ground_altitude |-> ground_altitude,
     end_take_off_altitude |->
        IF end_take_off_altitude = None THEN ground_altitude + 30 ELSE Absent,
     dt |-> DefaultDt,
     nb_max_iterations |-> DefaultNbMaxIterations]

\* the evolution_variable_names of TakeOffManeuver and the extra recorded list
TakeOffVariableNames ==
    {"phase", "altitude", "time", "thrust", "incidence", "pitch",
     "lift_coefficient", "drag_coefficient", "ground_distance", "velocity",
     "acceleration", "ground_reaction_force", "ground_friction_force", "lift",
     "drag", "rho"}

TakeOffListNames == TakeOffVariableNames \cup {"pitch_derivative"}

\* list[-1]
Last(list) == list[Len(list)]

\* TakeOffManeuver._initialize_evolution_variables: the lists it creates
TakeOffInitialLists(s) ==
    [phase |-> <<"initial_acceleration">>,
     time |-> <<0>>,
     thrust |-> <<thrust_evolution_function(s, 0)>>,
     incidence |-> <<0>>,
     pitch |-> <<0>>,
     altitude |-> <<s.ground_altitude>>,
     lift_coefficient |-> <<C_L(s.plane_model, 0)>>,
     drag_coefficient |-> <<s.plane_model.C_D_0>>,
     ground_distance |-> <<0>>,
     velocity |-> <<0>>,
     acceleration |-> <<0>>,
     pitch_derivative |-> <<0>>,
     ground_reaction_force |-> <<s.plane_model.P>>,
     ground_friction_force |->
        <<(s.plane_model.P * s.ground_friction_coefficient) \div CoefScale>>,
     drag |-> <<compute_drag(s.plane_model, 0, s.ground_altitude, 0)>>,
     lift |-> <<compute_lift(s.plane_model, 0, s.ground_altitude, 0)>>,
     rho |-> <<compute_density_from_altitude(s.ground_altitude)>>]

\* TakeOffPhase without the test of the ground reaction force
TakeOffPhaseIgnoringReactionForce(s, l) ==
    IF Last(l.velocity) > s.rotation_sequence_trigger_speed
    THEN "flight"
    ELSE "initial_acceleration"

\* the phase a take-off step records, from the last recorded state
TakeOffPhase(s, l) ==
    IF Last(l.velocity) > s.rotation_sequence_trigger_speed
       /\ Last(l.ground_reaction_force) <= 0
    THEN "flight"
    ELSE IF Last(l.velocity) > s.rotation_sequence_trigger_speed
    THEN "rotation"
    ELSE "initial_acceleration"

\* TakeOffIncidence without the saturation at the stall angle
TakeOffIncidenceUnsaturated(s, l, current_phase) ==
    Last(l.incidence)
    + (IF current_phase = "rotation" THEN s.ground_rotation_speed * s.dt ELSE 0)
    + (IF current_phase = "flight" THEN air_rotation_speed * s.dt ELSE 0)

\* the angle of incidence of a take-off step, saturated at the stall angle
TakeOffIncidence(s, l, current_phase) ==
    Min(Last(l.incidence)
        + (IF current_phase = "rotation" THEN s.ground_rotation_speed * s.dt ELSE 0)
        + (IF current_phase = "flight" THEN air_rotation_speed * s.dt ELSE 0),
        s.plane_model.alpha_stall)

\* TakeOffGroundReactionForce without the clamp at zero on the ground
TakeOffGroundReactionForceUnclamped(current_phase, vertical_force) ==
    IF current_phase = "flight" THEN 0 ELSE vertical_force

\* the ground reaction force of a take-off step
TakeOffGroundReactionForce(current_phase, vertical_force) ==
    IF current_phase = "flight" THEN 0 ELSE Max(vertical_force, 0)

\* TakeOffPitchDerivative with the division performed in 'rotation' as well
TakeOffPitchDerivativeOnRotation(s, l, current_phase, vertical_force) ==
    IF current_phase # "initial_acceleration"
    THEN ((0 - vertical_force) * UnitsPerRad) \div (s.plane_model.m * Last(l.velocity))
    ELSE 0

\* the pitch rate of a take-off step: -vertical_force / (m * velocity) in
\* flight, 0 on the ground; the division is undefined for a zero velocity
TakeOffPitchDerivative(s, l, current_phase, vertical_force) ==
    IF current_phase = "flight"
    THEN ((0 - vertical_force) * UnitsPerRad) \div (s.plane_model.m * Last(l.velocity))
    ELSE 0

\* the values one iteration of TakeOffManeuver.compute_evolution appends
TakeOffCurrent(s, l) ==
    LET plane == s.plane_model
        current_time == Last(l.time) + s.dt
        current_phase == TakeOffPhase(s, l)
        current_thrust ==
            compute_thrust(plane, Last(l.altitude)) * thrust_evolution_function(s, current_time)
        current_incidence == TakeOffIncidence(s, l, current_phase)
        current_pitch ==
            IF current_phase = "flight"
            THEN Last(l.pitch) + Last(l.pitch_derivative) * s.dt
            ELSE 0
        current_lift_coefficient == C_L(plane, current_incidence)
        current_drag_coefficient == C_D(plane, current_incidence)
        current_rho == compute_density_from_altitude(Last(l.altitude))
        current_drag ==
            compute_drag(plane, Last(l.velocity), Last(l.altitude), Last(l.incidence))
        current_lift ==
            compute_lift(plane, Last(l.velocity), Last(l.altitude), Last(l.incidence))
        vertical_force ==
            (plane.P * Cos(current_pitch)) \div TrigScale
            - current_lift
            - (current_thrust * Sin(current_incidence)) \div TrigScale
        current_pitch_derivative ==
            TakeOffPitchDerivative(s, l, current_phase, vertical_force)
        current_ground_reaction_force ==
            TakeOffGroundReactionForce(current_phase, vertical_force)
        current_ground_friction_force ==
            (current_ground_reaction_force * s.ground_friction_coefficient) \div CoefScale
        current_acceleration ==
            IF current_phase = "flight"
            THEN ((current_thrust * Cos(current_incidence)) \div TrigScale
                  - current_drag
                  - (plane.P * Sin(current_pitch)) \div TrigScale) \div plane.m
            ELSE ((current_thrust * Cos(current_incidence)) \div TrigScale
                  - current_drag
                  - current_ground_friction_force) \div plane.m
        current_velocity == Last(l.velocity) + current_acceleration * s.dt
        current_ground_distance ==
            Last(l.ground_distance)
            + (current_velocity * s.dt * Cos(current_pitch)) \div TrigScale
        current_altitude ==
            Last(l.altitude)
            + (current_velocity * s.dt * Sin(current_pitch)) \div TrigScale
    IN  [phase |-> current_phase,
         time |-> current_time,
         thrust |-> current_thrust,
         incidence |-> current_incidence,
         pitch |-> current_pitch,
         lift_coefficient |-> current_lift_coefficient,
         drag_coefficient |-> current_drag_coefficient,
         acceleration |-> current_acceleration,
         velocity |-> current_velocity,
         ground_distance |-> current_ground_distance,
         rho |-> current_rho,
         pitch_derivative |-> current_pitch_derivative,
         drag |-> current_drag,
         lift |-> current_lift,
         altitude |-> current_altitude,
         ground_reaction_force |-> current_ground_reaction_force,
         ground_friction_force |-> current_ground_friction_force]

\* AppendAll with the append to rho_list forgotten
AppendAllButRho(l, current) ==
    [n \in DOMAIN l |-> IF n = "rho" THEN l[n] ELSE Append(l[n], current[n])]

\* the appends that end an iteration: one element on every recorded list
AppendAll(l, current) == [n \in DOMAIN l |-> Append(l[n], current[n])]

(***************************************************************************)
(* LandingManeuver                                                         *)
(***************************************************************************)
\* LandingManeuver.__init__
LandingManeuver(plane_model, rotation_speed, initial_velocity, schedule, ground_friction_coefficient, braking_friction_coefficient, initial_incidence, ground_altitude, parachute_drag_coefficient, parachute_reference_surface) ==
    [plane_model |-> plane_model,
     ground_rotation_speed |-> rotation_speed,
     initial_velocity |-> initial_velocity,
     thrust_evolution_function |-> schedule,
     ground_friction_coefficient |-> ground_friction_coefficient,
     braking_friction_coefficient |-> braking_friction_coefficient,
     initial_incidence |-> initial_incidence,
     ground_altitude |-> ground_altitude,
     parachute_drag_coefficient |-> parachute_drag_coefficient,
     parachute_reference_surface |-> parachute_reference_surface,
     dt |-> DefaultDt,
     nb_max_iterations |-> DefaultNbMaxIterations]

\* the evolution_variable_names of LandingManeuver
LandingVariableNames ==
    {"phase", "time", "thrust", "incidence", "lift_coefficient",
     "drag_coefficient", "ground_distance", "velocity", "acceleration",
     "ground_reaction_force", "ground_friction_force", "drag", "lift",
     "braking_energy"}

\* the product of two fixed-point numbers: like a binary64 product, it is
\* zero when a factor is zero and also when both factors are so small that
\* the product is below the least positive number (underflow)
FixedProduct(a, b) == (a * b) \div CoefScale

\* .5 * rho * v^2 * parachute_drag_coefficient * parachute_reference_surface
ParachuteDrag(s, v) ==
    (DynamicPressure(v, s.ground_altitude)
     * FixedProduct(s.parachute_drag_coefficient, s.parachute_reference_surface))
    \div (1000 * CoefScale)

\* LandingManeuver._initialize_evolution_variables: the lists it creates
LandingInitialLists(s) ==
    [phase |-> <<"initial_touchdown">>,
     time |-> <<0>>,
     thrust |-> <<thrust_evolution_function(s, 0)>>,
     incidence |-> <<s.initial_incidence>>,
     lift_coefficient |-> <<C_L(s.plane_model, 0)>>,
     drag_coefficient |-> <<s.plane_model.C_D_0>>,
     ground_distance |-> <<0>>,
     velocity |-> <<s.initial_velocity>>,
     acceleration |-> <<0>>,
     ground_reaction_force |-> <<0>>,
     ground_friction_force |-> <<0>>,
     drag |-> <<compute_drag(s.plane_model, s.initial_velocity,
                             s.ground_altitude, s.initial_incidence)
                + ParachuteDrag(s, s.initial_velocity)>>,
     lift |-> <<compute_lift(s.plane_model, s.initial_velocity,
                             s.ground_altitude, s.initial_incidence)>>,
     braking_energy |-> <<0>>]

\* LandingPhase with 'stopped' recognised only below zero velocity
LandingPhaseStrictStop(s, l) ==
    IF Last(l.velocity) < 0 THEN "stopped"
    ELSE IF Last(l.incidence) <= 0 THEN "braking"
    ELSE "rotation"

\* LandingPhase with the incidence tested before the velocity
LandingPhaseBrakingFirst(s, l) ==
    IF Last(l.incidence) <= 0 THEN "braking"
    ELSE IF Last(l.velocity) <= 0 THEN "stopped"
    ELSE "rotation"

\* the phase a landing step records, from the last recorded state
LandingPhase(s, l) ==
    IF Last(l.velocity) <= 0 THEN "stopped"
    ELSE IF Last(l.incidence) <= 0 THEN "braking"
    ELSE "rotation"

\* LandingGroundFrictionForce with the rolling friction only
LandingGroundFrictionForceRollingOnly(s, ground_reaction_force) ==
    (ground_reaction_force * s.ground_friction_coefficient) \div CoefScale

\* the ground friction force of a landing step: the wheels roll and brake in
\* every phase
LandingGroundFrictionForce(s, ground_reaction_force) ==
    (ground_reaction_force
     * (s.ground_friction_coefficient + s.braking_friction_coefficient)) \div CoefScale

\* LandingIncidence with the rotation added instead of subtracted
LandingIncidenceRising(s, l) ==
    Max(Last(l.incidence) + s.ground_rotation_speed * s.dt, 0)

\* LandingIncidence without the floor at zero
LandingIncidenceUnfloored(s, l) ==
    Last(l.incidence) - s.ground_rotation_speed * s.dt

\* the angle of incidence of a landing step: the nose comes down at the
\* ground rotation speed until the incidence is zero
LandingIncidence(s, l) ==
    Max(Last(l.incidence) - s.ground_rotation_speed * s.dt, 0)

\* the values one iteration of LandingManeuver.compute_evolution appends
LandingCurrent(s, l) ==
    LET plane == s.plane_model
        current_time == Last(l.time) + s.dt
        current_phase == LandingPhase(s, l)
        current_thrust ==
            compute_thrust(plane, s.ground_altitude) * thrust_evolution_function(s, current_time)
        current_incidence == LandingIncidence(s, l)
        current_lift_coefficient == C_L(plane, current_incidence)
        current_drag_coefficient ==
            C_D(plane, current_incidence)
            + FixedProduct(s.parachute_reference_surface, s.parachute_drag_coefficient)
              \div plane.S
        current_drag ==
            compute_drag(plane, Last(l.velocity), s.ground_altitude, current_incidence)
            + ParachuteDrag(s, Last(l.velocity))
        current_lift ==
            compute_lift(plane, Last(l.velocity), s.ground_altitude, current_incidence)
        current_ground_reaction_force ==
            plane.P - current_lift - (current_thrust * Sin(current_incidence)) \div TrigScale
        current_ground_friction_force ==
            LandingGroundFrictionForce(s, current_ground_reaction_force)
        current_acceleration ==
            ((current_thrust * Cos(current_incidence)) \div TrigScale
             - current_drag - current_ground_friction_force) \div plane.m
        current_velocity == Last(l.velocity) + current_acceleration * s.dt
        current_ground_distance == Last(l.ground_distance) + current_velocity * s.dt
        current_braking_energy ==
            Last(l.braking_energy)
            + (current_ground_reaction_force * s.braking_friction_coefficient
               * current_velocity * s.dt) \div CoefScale
    IN  [phase |-> current_phase,
         time |-> current_time,
         thrust |-> current_thrust,
         incidence |-> current_incidence,
         lift_coefficient |-> current_lift_coefficient,
         drag_coefficient |-> current_drag_coefficient,
         lift |-> current_lift,
         drag |-> current_drag,
         ground_reaction_force |-> current_ground_reaction_force,
         ground_friction_force |-> current_ground_friction_force,
         acceleration |-> current_acceleration,
         velocity |-> current_velocity,
         ground_distance |-> current_ground_distance,
         braking_energy |-> current_braking_energy]

(***************************************************************************)
(* Instances: the state after construction and configuration               *)
(***************************************************************************)
TakeOffInstances ==
    { [a |-> [end_take_off_altitude |-> e],
       s |-> Configure(TakeOffManeuver(p, r, v, f, 3, 2, g, e), dt, n)]
      : p \in Planes, r \in {1, 2}, v \in {20, 56, 120}, f \in TakeOffSchedules,
        g \in {0, 100}, e \in {None, 50}, dt \in DtValues,
        n \in NbMaxIterationsValues }

\* the parachute coefficients given to LandingManeuver.__init__
ParachuteArguments == {<<0, 0>>, <<60, 1500>>, <<60, 0>>, <<0, 1500>>, <<1, 1>>}

\* the condition under which LandingManeuver.__init__ raises its Warning
ParachutePartiallyDefined(parachute_drag_coefficient, parachute_reference_surface) ==
    /\ FixedProduct(parachute_drag_coefficient, parachute_reference_surface) = 0
    /\ (parachute_reference_surface # 0 \/ parachute_drag_coefficient # 0)

\* the landings whose construction returns an instance
LandingInstances ==
    { [a |-> [parachute_drag_coefficient |-> c[1],
              parachute_reference_surface |-> c[2]],
       s |-> Configure(LandingManeuver(p, r, v, f, 3, 50, i, 0, c[1], c[2]), dt, n)]
      : p \in Planes, r \in {0 - 1, 1}, v \in {0, 30, 62}, f \in LandingSchedules,
        i \in {0 - 1, 0, 2},
        c \in {c \in ParachuteArguments : ~ParachutePartiallyDefined(c[1], c[2])},
        dt \in DtValues, n \in NbMaxIterationsValues }

\* the landings whose construction raises: the attributes are assigned, then
\* the Warning leaves the caller without an instance
LandingFailedConstructions ==
    { [a |-> [parachute_drag_coefficient |-> c[1],
              parachute_reference_surface |-> c[2]],
       s |-> LandingManeuver(p, r, v, f, 3, 50, i, 0, c[1], c[2])]
      : p \in Planes, r \in {0 - 1, 1}, v \in {0, 30, 62}, f \in LandingSchedules,
        i \in {0 - 1, 0, 2},
        c \in {c \in ParachuteArguments : ParachutePartiallyDefined(c[1], c[2])} }

Init ==
    /\ \/ /\ kind = "TakeOffManeuver"
          /\ \E i \in TakeOffInstances : self = i.s /\ args = i.a
          /\ rotation_start_time = None
          /\ flight_start_time = None
          /\ braking_start_time = Absent
          /\ stop_time = Absent
          /\ pc = "idle"
          /\ outcome = "none"
       \/ /\ kind = "LandingManeuver"
          /\ \E i \in LandingInstances : self = i.s /\ args = i.a
          /\ rotation_start_time = Absent
          /\ flight_start_time = Absent
          /\ braking_start_time = None
          /\ stop_time = Absent
          /\ pc = "idle"
          /\ outcome = "none"
       \/ /\ kind = "LandingManeuver"
          /\ \E i \in LandingFailedConstructions : self = i.s /\ args = i.a
          /\ rotation_start_time = Absent
          /\ flight_start_time = Absent
          /\ braking_start_time = None
          /\ stop_time = Absent
          /\ pc = "no_instance"
          /\ outcome = "Warning"
    /\ lists = << >>
    /\ calls = 0
    /\ first_run = << >>

(***************************************************************************)
(* compute_evolution                                                       *)
(***************************************************************************)
\* what a finished call leaves on the instance
Result == <<lists, rotation_start_time, flight_start_time, braking_start_time, stop_time>>

\* the call ends, normally or with an exception
EndCall(how) ==
    /\ pc' = "idle"
    /\ outcome' = how
    /\ calls' = calls + 1
    /\ first_run' = IF calls = 0 THEN Result ELSE first_run

\* TakeOffEnter with time_list created once and not reset by a later call
TakeOffEnterKeepsTimeList ==
    /\ kind = "TakeOffManeuver"
    /\ pc = "idle"
    /\ calls < MaxCalls
    /\ lists' = IF calls = 0
                THEN TakeOffInitialLists(self)
                ELSE [TakeOffInitialLists(self) EXCEPT !.time = lists.time]
    /\ rotation_start_time' = None
    /\ flight_start_time' = None
    /\ pc' = "loop"
    /\ outcome' = "none"
    /\ UNCHANGED <<kind, self, args, braking_start_time, stop_time, calls, first_run>>

\* TakeOffManeuver.compute_evolution up to the loop: _initialize_evolution_variables
TakeOffEnter ==
    /\ kind = "TakeOffManeuver"
    /\ pc = "idle"
    /\ calls < MaxCalls
    /\ lists' = TakeOffInitialLists(self)
    /\ rotation_start_time' = None
    /\ flight_start_time' = None
    /\ pc' = "loop"
    /\ outcome' = "none"
    /\ UNCHANGED <<kind, self, args, braking_start_time, stop_time, calls, first_run>>

\* TakeOffFlightStartTime written on every edge into 'flight'
TakeOffFlightStartTimeAnyEdge(current, previous_phase, old) ==
    IF current.phase = "flight" /\ previous_phase # "flight"
    THEN current.time ELSE old

\* flight_start_time after a take-off step: written on the edge from 'rotation'
TakeOffFlightStartTime(current, previous_phase, old) ==
    IF current.phase = "flight" /\ previous_phase = "rotation"
    THEN current.time ELSE old

\* rotation_start_time after a take-off step: written on the edge from
\* 'initial_acceleration'
TakeOffRotationStartTime(current, previous_phase, old) ==
    IF current.phase = "rotation" /\ previous_phase = "initial_acceleration"
    THEN current.time ELSE old

\* the while condition of TakeOffManeuver.compute_evolution
TakeOffContinue ==
    /\ Last(lists.altitude) < self.end_take_off_altitude
    /\ Len(lists.phase) < self.nb_max_iterations

\* one iteration of the loop of TakeOffManeuver.compute_evolution
TakeOffStep ==
    /\ kind = "TakeOffManeuver"
    /\ pc = "loop"
    /\ self.end_take_off_altitude # Absent
    /\ TakeOffContinue
    /\ LET current == TakeOffCurrent(self, lists)
       IN  /\ flight_start_time' =
                TakeOffFlightStartTime(current, Last(lists.phase), flight_start_time)
           /\ rotation_start_time' =
                TakeOffRotationStartTime(current, Last(lists.phase), rotation_start_time)
           /\ lists' = AppendAll(lists, current)
    /\ UNCHANGED <<kind, self, args, pc, braking_start_time, stop_time, calls,
                   outcome, first_run>>

\* the loop of TakeOffManeuver.compute_evolution ends and the call returns
TakeOffReturn ==
    /\ kind = "TakeOffManeuver"
    /\ pc = "loop"
    /\ self.end_take_off_altitude # Absent
    /\ ~TakeOffContinue
    /\ EndCall("returned")
    /\ UNCHANGED <<kind, self, args, lists, rotation_start_time, flight_start_time,
                   braking_start_time, stop_time>>

\* the while condition reads self.end_take_off_altitude, which __init__ never
\* assigned: AttributeError
TakeOffRaise ==
    /\ kind = "TakeOffManeuver"
    /\ pc = "loop"
    /\ self.end_take_off_altitude = Absent
    /\ EndCall("AttributeError")
    /\ UNCHANGED <<kind, self, args, lists, rotation_start_time, flight_start_time,
                   braking_start_time, stop_time>>

\* LandingManeuver.compute_evolution up to the loop: _initialize_evolution_variables
LandingEnter ==
    /\ kind = "LandingManeuver"
    /\ pc = "idle"
    /\ calls < MaxCalls
    /\ lists' = LandingInitialLists(self)
    /\ braking_start_time' = None
    /\ stop_time' = None
    /\ pc' = "loop"
    /\ outcome' = "none"
    /\ UNCHANGED <<kind, self, args, rotation_start_time, flight_start_time, calls, first_run>>

\* LandingBrakingStartTime written at every 'braking' step
LandingBrakingStartTimeEveryStep(current, previous_phase, old) ==
    IF current.phase = "braking" THEN current.time ELSE old

\* braking_start_time after a landing step: written on the edge from 'rotation'
LandingBrakingStartTime(current, previous_phase, old) ==
    IF current.phase = "braking" /\ previous_phase = "rotation"
    THEN current.time ELSE old

\* LandingContinue without the test of the 'stopped' phase
LandingContinueAfterStopped ==
    Len(lists.phase) < self.nb_max_iterations

\* the while condition of LandingManeuver.compute_evolution
LandingContinue ==
    /\ Last(lists.phase) # "stopped"
    /\ Len(lists.phase) < self.nb_max_iterations

\* LandingStep counting the iterations down in nb_max_iterations
LandingStepConsumingCap ==
    /\ kind = "LandingManeuver"
    /\ pc = "loop"
    /\ LandingContinue
    /\ LET current == LandingCurrent(self, lists)
       IN  /\ braking_start_time' =
                LandingBrakingStartTime(current, Last(lists.phase), braking_start_time)
           /\ lists' = AppendAll(lists, current)
    /\ self' = [self EXCEPT !.nb_max_iterations = self.nb_max_iterations - 1]
    /\ UNCHANGED <<kind, args, pc, rotation_start_time, flight_start_time,
                   stop_time, calls, outcome, first_run>>

\* one iteration of the loop of LandingManeuver.compute_evolution
LandingStep ==
    /\ kind = "LandingManeuver"
    /\ pc = "loop"
    /\ LandingContinue
    /\ LET current == LandingCurrent(self, lists)
       IN  /\ braking_start_time' =
                LandingBrakingStartTime(current, Last(lists.phase), braking_start_time)
           /\ lists' = AppendAll(lists, current)
    /\ UNCHANGED <<kind, self, args, pc, rotation_start_time, flight_start_time,
                   stop_time, calls, outcome, first_run>>

\* the loop of LandingManeuver.compute_evolution ends and the call returns
LandingReturn ==
    /\ kind = "LandingManeuver"
    /\ pc = "loop"
    /\ ~LandingContinue
    /\ EndCall("returned")
    /\ UNCHANGED <<kind, self, args, lists, rotation_start_time, flight_start_time,
                   braking_start_time, stop_time>>

Next ==
    \/ TakeOffEnter
    \/ TakeOffStep
    \/ TakeOffReturn
    \/ TakeOffRaise
    \/ LandingEnter
    \/ LandingStep
    \/ LandingReturn

Spec == Init /\ [][Next]_vars

(***************************************************************************)
(* Properties                                                              *)
(***************************************************************************)
\* the instance has recorded lists: a call has initialised them
Recorded == pc = "loop" \/ calls > 0

\* the names of the lists an instance of this class records
ListNames ==
    IF kind = "TakeOffManeuver" THEN TakeOffListNames ELSE LandingVariableNames

\* indices of the recorded states
States == 1..Len(lists.time)

ListsInLockstep ==
    Recorded =>
        /\ DOMAIN lists = ListNames
        /\ \A n \in ListNames : Len(lists[n]) = Len(lists.time)

StepOnlyAppends ==
    (pc = "loop" /\ lists' # lists) =>
        \A n \in ListNames :
            /\ Len(lists'[n]) = Len(lists[n]) + 1
            /\ SubSeq(lists'[n], 1, Len(lists[n])) = lists[n]

\* C1: after the initialisation and after every integration step of either
\* maneuver, every recorded list has the length of time_list, and a step
\* appends exactly one element to each list and changes no recorded element.
C1_ListsSameLengthAppendOnly == [](ListsInLockstep) /\ [][StepOnlyAppends]_vars

\* a take-off has recorded three steps on all seventeen lists
C1_Witness ==
    /\ kind = "TakeOffManeuver"
    /\ pc = "loop"
    /\ \A n \in TakeOffListNames : Len(lists[n]) = 4

\* the order initial_acceleration < rotation < flight
PhaseRank(phase) ==
    IF phase = "initial_acceleration" THEN 0 ELSE IF phase = "rotation" THEN 1 ELSE 2

\* C2: in every take-off run the recorded phase sequence is non-decreasing in
\* the order initial_acceleration < rotation < flight.
C2_PhasesNeverRegress ==
    (kind = "TakeOffManeuver" /\ Recorded) =>
        \A i \in States : \A j \in States :
            i < j => PhaseRank(lists.phase[i]) <= PhaseRank(lists.phase[j])

\* C3: in every landing run no recorded state has a negative velocity.
C3_LandingVelocityNonNegative ==
    (kind = "LandingManeuver" /\ Recorded) =>
        \A i \in States : lists.velocity[i] >= 0

\* C4: in every landing run the recorded ground_distance sequence is
\* non-decreasing up to the last recorded state, the 'stopped' one included.
C4_LandingDistanceNonDecreasing ==
    (kind = "LandingManeuver" /\ Recorded) =>
        \A i \in States : \A j \in States :
            i < j => lists.ground_distance[i] <= lists.ground_distance[j]

\* C5: with nb_max_iterations set to 1, compute_evolution leaves a trajectory
\* of exactly 2 recorded states: the initial state and one integration step.
C5_CapOneRecordsTwoStates ==
    (pc = "idle" /\ outcome = "returned" /\ self.nb_max_iterations = 1) =>
        Len(lists.time) = 2

\* the end-of-take-off altitude the constructor was asked for
RequestedEndAltitude ==
    IF args.end_take_off_altitude = None
    THEN self.ground_altitude + 30
    ELSE args.end_take_off_altitude

\* C6: a take-off run uses as end-of-take-off altitude the value passed to the
\* constructor, or ground_altitude + 30 when none is passed, and every recorded
\* state except the last has an altitude strictly below it.
C6_EndAltitudeIsTheOneRequested ==
    (kind = "TakeOffManeuver" /\ Recorded) =>
        /\ self.end_take_off_altitude = RequestedEndAltitude
        /\ outcome # "AttributeError"
        /\ \A i \in States :
             i < Len(lists.time) => lists.altitude[i] < RequestedEndAltitude

\* C7: compute_evolution of either maneuver returns normally, after at most
\* nb_max_iterations integration steps.
C7_ReturnsNormallyWithinCap ==
    (pc = "idle" /\ calls > 0) =>
        /\ outcome = "returned"
        /\ Len(lists.time) - 1 <= self.nb_max_iterations

\* C8: a second call of compute_evolution (and any later one) on the same
\* instance leaves the same recorded lists and the same timers as the first.
C8_SecondRunEqualsFirst ==
    (pc = "idle" /\ calls >= 2) => Result = first_run

\* a take-off that set both timers has been run to its end twice
C8_Witness ==
    /\ kind = "TakeOffManeuver"
    /\ pc = "idle"
    /\ calls = 2
    /\ outcome = "returned"
    /\ rotation_start_time # None
    /\ flight_start_time # None
    /\ Len(lists.time) > 4

\* C9: in every take-off run with a non-negative stall angle, the incidence of
\* every recorded state, the initial one included, is at most alpha_stall.
C9_IncidenceAtMostStall ==
    (kind = "TakeOffManeuver" /\ Recorded /\ self.plane_model.alpha_stall >= 0) =>
        \A i \in States : lists.incidence[i] <= self.plane_model.alpha_stall

\* a flight step whose rotation would have passed the stall angle
C9_Witness ==
    /\ kind = "TakeOffManeuver"
    /\ Recorded
    /\ Len(lists.time) > 1
    /\ Last(lists.phase) = "flight"
    /\ self.plane_model.alpha_stall > 0
    /\ Last(lists.incidence) = self.plane_model.alpha_stall
    /\ lists.incidence[Len(lists.time) - 1] + air_rotation_speed * self.dt
         > self.plane_model.alpha_stall

\* C10: in every take-off run (weight >= 0) the ground_reaction_force of every
\* recorded state is >= 0, and it is 0, as is ground_friction_force, in every
\* state whose phase is 'flight'.
C10_ReactionForceNonNegative ==
    (kind = "TakeOffManeuver" /\ Recorded /\ self.plane_model.P >= 0) =>
        \A i \in States :
            /\ lists.ground_reaction_force[i] >= 0
            /\ lists.phase[i] = "flight" =>
                 /\ lists.ground_reaction_force[i] = 0
                 /\ lists.ground_friction_force[i] = 0

\* a rotation step whose lift exceeds the weight, followed by a flight step
C10_Witness ==
    /\ kind = "TakeOffManeuver"
    /\ Recorded
    /\ \E i \in States :
        /\ i < Len(lists.time)
        /\ lists.phase[i] = "rotation"
        /\ lists.lift[i] > self.plane_model.P
        /\ lists.ground_reaction_force[i] = 0
        /\ lists.phase[i + 1] = "flight"

\* a loop iteration of the running call: the only step that changes the lists
\* while the call is in its loop
IsIteration == pc = "loop" /\ lists' # lists

\* C11: within one run, once rotation_start_time, flight_start_time or
\* braking_start_time has been set to a value, no later step of that run
\* changes it.
C11_TimersWrittenOncePerRun ==
    [][IsIteration =>
         /\ (rotation_start_time >= 0 => rotation_start_time' = rotation_start_time)
         /\ (flight_start_time >= 0 => flight_start_time' = flight_start_time)
         /\ (braking_start_time >= 0 => braking_start_time' = braking_start_time)]_vars

\* C12: a take-off step sets rotation_start_time only on the edge
\* initial_acceleration -> rotation and flight_start_time only on the edge
\* rotation -> flight, to the time recorded for that step; every other step,
\* the edge initial_acceleration -> flight included, leaves both unchanged.
C12_TakeOffTimersSetOnTheirEdgeOnly ==
    [][(kind = "TakeOffManeuver" /\ IsIteration) =>
         LET previous == Last(lists.phase)
             phase == Last(lists'.phase)
         IN  /\ rotation_start_time' =
                  IF phase = "rotation" /\ previous = "initial_acceleration"
                  THEN Last(lists'.time) ELSE rotation_start_time
             /\ flight_start_time' =
                  IF phase = "flight" /\ previous = "rotation"
                  THEN Last(lists'.time) ELSE flight_start_time]_vars

\* a step went from 'initial_acceleration' straight to 'flight' and
\* flight_start_time is still None
C12_Witness ==
    /\ kind = "TakeOffManeuver"
    /\ Recorded
    /\ Len(lists.time) > 1
    /\ Last(lists.phase) = "flight"
    /\ lists.phase[Len(lists.time) - 1] = "initial_acceleration"
    /\ flight_start_time = None

\* the least element of a non-empty set of indices
Least(S) == CHOOSE i \in S : \A j \in S : i <= j

\* indices of the recorded 'braking' states
BrakingStates == {i \in States : lists.phase[i] = "braking"}

\* indices of the 'braking' states recorded right after a 'rotation' state
BrakingAfterRotation ==
    {i \in States : i > 1 /\ lists.phase[i] = "braking" /\ lists.phase[i - 1] = "rotation"}

\* C13 as stated: in a landing run braking_start_time is None as long as no
\* 'braking' state has been recorded, and from the first 'braking' state onward
\* it equals the time recorded for that state, for every initial incidence.
C13_BrakingTimerIsFirstBrakingTime ==
    (kind = "LandingManeuver" /\ Recorded) =>
        braking_start_time =
            IF BrakingStates = {} THEN None ELSE lists.time[Least(BrakingStates)]

\* C13 as amended: braking_start_time is None as long as no 'braking' state
\* has been recorded right after a 'rotation' state, and from the first such
\* state onward it equals the time recorded for it; a 'braking' state that
\* follows 'initial_touchdown' directly leaves it None.
C13_BrakingTimerIsFirstBrakingAfterRotation ==
    (kind = "LandingManeuver" /\ Recorded) =>
        braking_start_time =
            IF BrakingAfterRotation = {}
            THEN None ELSE lists.time[Least(BrakingAfterRotation)]

\* the timer was set at the edge from 'rotation' and two more 'braking' steps
\* have followed
C13_Witness ==
    /\ kind = "LandingManeuver"
    /\ Recorded
    /\ Len(lists.time) > 3
    /\ braking_start_time = lists.time[Len(lists.time) - 2]
    /\ lists.phase[Len(lists.time) - 3] = "rotation"
    /\ lists.phase[Len(lists.time) - 2] = "braking"
    /\ Last(lists.phase) = "braking"

\* C14: in a landing run the state recorded after a state with velocity <= 0
\* is 'stopped'; 'stopped' is recorded only as the last state, and a run that
\* returns below the iteration cap ends with the 'stopped' state.
C14_StoppedFollowsZeroVelocityAndEndsRun ==
    (kind = "LandingManeuver" /\ Recorded) =>
        /\ \A i \in States :
            /\ (i < Len(lists.time) /\ lists.velocity[i] <= 0) =>
                    lists.phase[i + 1] = "stopped"
            /\ lists.phase[i] = "stopped" => i = Len(lists.time)
        /\ (pc = "idle" /\ Len(lists.time) < self.nb_max_iterations) =>
                Last(lists.phase) = "stopped"

\* a landing braked to exactly zero velocity, recorded 'stopped' and returned
\* below its cap
C14_Witness ==
    /\ kind = "LandingManeuver"
    /\ pc = "idle"
    /\ outcome = "returned"
    /\ Len(lists.time) > 3
    /\ Len(lists.time) < self.nb_max_iterations
    /\ Last(lists.phase) = "stopped"
    /\ lists.velocity[Len(lists.time) - 1] = 0

\* C15: the constructor of LandingManeuver raises its Warning exactly when one
\* of parachute_drag_coefficient and parachute_reference_surface is zero and
\* the other is not; it raises neither when both are zero nor when both are
\* non-zero.
C15_WarningIffOneParachuteCoefficientIsZero ==
    kind = "LandingManeuver" =>
        ((pc = "no_instance" /\ outcome = "Warning")
            <=> ((args.parachute_drag_coefficient = 0)
                    # (args.parachute_reference_surface = 0)))

\* C16: at every take-off step the recorded phase is decided by the previous
\* recorded state alone, first match winning: 'flight' if the previous
\* velocity is above rotation_sequence_trigger_speed and the previous ground
\* reaction force is <= 0, else 'rotation' if the previous velocity is above
\* the trigger speed, else 'initial_acceleration'.
C16_TakeOffPhaseFromPreviousState ==
    (kind = "TakeOffManeuver" /\ Recorded) =>
        \A i \in States \ {1} :
            lists.phase[i] =
                IF lists.velocity[i - 1] > self.rotation_sequence_trigger_speed
                   /\ lists.ground_reaction_force[i - 1] <= 0
                THEN "flight"
                ELSE IF lists.velocity[i - 1] > self.rotation_sequence_trigger_speed
                THEN "rotation"
                ELSE "initial_acceleration"

\* a take-off whose steps recorded each of the three phases
C16_Witness ==
    /\ kind = "TakeOffManeuver"
    /\ Recorded
    /\ \E i \in States \ {1} : lists.phase[i] = "initial_acceleration"
    /\ \E i \in States \ {1} : lists.phase[i] = "rotation"
    /\ \E i \in States \ {1} : lists.phase[i] = "flight"

\* the recorded states of a landing whose incidence is <= 0
LevelStates == {i \in States : lists.incidence[i] <= 0}

\* C17: at every landing step the recorded phase is decided by the previous
\* recorded state alone, first match winning: 'stopped' if the previous
\* velocity is <= 0, else 'braking' if the previous incidence is <= 0, else
\* 'rotation'; hence the first 'braking' state, when there is one, is the
\* state right after the first state whose incidence is <= 0.
C17_LandingPhaseFromPreviousState ==
    (kind = "LandingManeuver" /\ Recorded) =>
        /\ \A i \in States \ {1} :
                lists.phase[i] =
                    IF lists.velocity[i - 1] <= 0 THEN "stopped"
                    ELSE IF lists.incidence[i - 1] <= 0 THEN "braking"
                    ELSE "rotation"
        /\ BrakingStates # {} =>
                /\ LevelStates # {}
                /\ Least(BrakingStates) = Least(LevelStates) + 1

\* a landing that recorded 'rotation' states and then its first 'braking'
\* state, one step after the incidence reached zero
C17_Witness ==
    /\ kind = "LandingManeuver"
    /\ Recorded
    /\ BrakingStates # {}
    /\ Least(BrakingStates) > 3
    /\ lists.phase[Least(BrakingStates) - 1] = "rotation"
    /\ lists.incidence[Least(BrakingStates) - 2] > 0

\* the order of the landing phases
LandingPhaseRank(phase) ==
    IF phase = "initial_touchdown" THEN 0
    ELSE IF phase = "rotation" THEN 1
    ELSE IF phase = "braking" THEN 2
    ELSE 3

\* C18: in every landing run with a non-negative rotation speed the recorded
\* phases are 'initial_touchdown' exactly once, at index 0, then zero or more
\* 'rotation', then zero or more 'braking', then at most one 'stopped'; a
\* 'braking' state is never followed by a 'rotation' state.
C18_LandingPhaseShape ==
    (kind = "LandingManeuver" /\ Recorded /\ self.ground_rotation_speed >= 0) =>
        /\ \A i \in States : (lists.phase[i] = "initial_touchdown") <=> (i = 1)
        /\ \A i \in States : \A j \in States :
                i < j => LandingPhaseRank(lists.phase[i]) <= LandingPhaseRank(lists.phase[j])
        /\ Cardinality({i \in States : lists.phase[i] = "stopped"}) <= 1

\* a finished landing with a non-negative rotation speed that went through
\* every phase
C18_Witness ==
    /\ kind = "LandingManeuver"
    /\ pc = "idle"
    /\ calls > 0
    /\ self.ground_rotation_speed >= 0
    /\ \E i \in States : lists.phase[i] = "rotation"
    /\ \E i \in States : lists.phase[i] = "braking"
    /\ Last(lists.phase) = "stopped"

\* C19: in every landing run with a non-negative rotation speed and a
\* non-negative initial incidence, the recorded incidences never increase, are
\* all >= 0, and stay 0 once they have reached 0.
C19_LandingIncidenceFallsToZero ==
    (/\ kind = "LandingManeuver"
     /\ Recorded
     /\ self.ground_rotation_speed >= 0
     /\ self.initial_incidence >= 0) =>
        /\ \A i \in States : lists.incidence[i] >= 0
        /\ \A i \in States : \A j \in States :
                i < j => /\ lists.incidence[j] <= lists.incidence[i]
                         /\ lists.incidence[i] = 0 => lists.incidence[j] = 0

\* a landing that touched down nose up, rotated down to zero incidence and
\* kept it for several steps
C19_Witness ==
    /\ kind = "LandingManeuver"
    /\ Recorded
    /\ self.ground_rotation_speed > 0
    /\ self.initial_incidence > 0
    /\ lists.incidence[1] > 0
    /\ Cardinality({i \in States : lists.incidence[i] = 0}) >= 3

\* C20: in a landing run every recorded state other than the last two has a
\* velocity > 0: at most one state before the final 'stopped' state has a
\* velocity <= 0.
C20_OnlyLastTwoVelocitiesNotPositive ==
    (kind = "LandingManeuver" /\ Recorded) =>
        \A i \in States : i + 2 <= Len(lists.velocity) => lists.velocity[i] > 0

\* a finished landing whose velocity went below zero in the state before the
\* final 'stopped' state
C20_Witness ==
    /\ kind = "LandingManeuver"
    /\ pc = "idle"
    /\ calls > 0
    /\ Len(lists.velocity) > 3
    /\ Last(lists.phase) = "stopped"
    /\ lists.velocity[Len(lists.velocity) - 1] < 0

\* C21: at every take-off step the recorded lift and drag are compute_lift and
\* compute_drag at the incidence recorded for that same step (the incidence of
\* that step's lift and drag coefficients), with the velocity and altitude the
\* step starts from.
C21_LiftAndDragAtTheStepIncidence ==
    (kind = "TakeOffManeuver" /\ Recorded) =>
        \A i \in States \ {1} :
            /\ lists.lift_coefficient[i] = C_L(self.plane_model, lists.incidence[i])
            /\ lists.drag_coefficient[i] = C_D(self.plane_model, lists.incidence[i])
            /\ lists.lift[i] =
                    compute_lift(self.plane_model, lists.velocity[i - 1],
                                 lists.altitude[i - 1], lists.incidence[i])
            /\ lists.drag[i] =
                    compute_drag(self.plane_model, lists.velocity[i - 1],
                                 lists.altitude[i - 1], lists.incidence[i])

\* the altitude at which the thrust of recorded state i is taken
ThrustAltitude(i) ==
    IF kind = "LandingManeuver" \/ i = 1
    THEN self.ground_altitude
    ELSE lists.altitude[i - 1]

\* C22: in every recorded state of a take-off or landing, the initial state
\* included, the recorded thrust is the nominal thrust of the aircraft model
\* (at the altitude the step starts from; the ground altitude for the initial
\* state and for a landing) times the thrust schedule at the recorded time.
C22_ThrustIsNominalTimesSchedule ==
    Recorded =>
        \A i \in States :
            lists.thrust[i] =
                compute_thrust(self.plane_model, ThrustAltitude(i))
                * thrust_evolution_function(self, lists.time[i])

\* the friction coefficient of the maneuver: rolling friction for a take-off,
\* rolling plus braking friction for a landing
FrictionCoefficient ==
    IF kind = "TakeOffManeuver"
    THEN self.ground_friction_coefficient
    ELSE self.ground_friction_coefficient + self.braking_friction_coefficient

\* C23: in every recorded state, the initial state included, the ground
\* friction force is the ground reaction force times the friction coefficient:
\* ground_friction_coefficient for a take-off, ground_friction_coefficient +
\* braking_friction_coefficient for a landing, in every landing phase.
C23_FrictionIsReactionTimesCoefficient ==
    Recorded =>
        \A i \in States :
            lists.ground_friction_force[i] =
                (lists.ground_reaction_force[i] * FrictionCoefficient) \div CoefScale

\* a landing that recorded a non-zero friction force in a 'rotation' state, in
\* a 'braking' state and in its 'stopped' state
C23_Witness ==
    /\ kind = "LandingManeuver"
    /\ Recorded
    /\ \A phase \in {"rotation", "braking", "stopped"} :
            \E i \in States : /\ lists.phase[i] = phase
                              /\ lists.ground_friction_force[i] # 0

\* C24: a take-off step never divides by a zero velocity for the pitch rate:
\* with a non-negative rotation_sequence_trigger_speed, every 'flight' step
\* (the only one that divides) starts from a strictly positive velocity, and
\* every other step records a pitch and a pitch rate of 0.
C24_PitchRateDivisorPositive ==
    (/\ kind = "TakeOffManeuver"
     /\ Recorded
     /\ self.rotation_sequence_trigger_speed >= 0) =>
        \A i \in States \ {1} :
            IF lists.phase[i] = "flight"
            THEN lists.velocity[i - 1] > 0
            ELSE lists.pitch[i] = 0 /\ lists.pitch_derivative[i] = 0

\* a take-off whose 'flight' step divided by the velocity and recorded a
\* non-zero pitch rate, after a 'rotation' step that recorded none
C24_Witness ==
    /\ kind = "TakeOffManeuver"
    /\ Recorded
    /\ self.rotation_sequence_trigger_speed >= 0
    /\ \E i \in States \ {1} :
            /\ lists.phase[i] = "flight"
            /\ lists.pitch_derivative[i] # 0
            /\ lists.phase[i - 1] = "rotation"
            /\ lists.ground_reaction_force[i - 1] = 0

\* C25: in a take-off run, once a recorded state has an altitude above the
\* ground altitude, every later recorded state has a ground reaction force of
\* 0; any recorded state with a ground reaction force > 0 is at the ground
\* altitude.
C25_NoReactionForceOnceAirborne ==
    (kind = "TakeOffManeuver" /\ Recorded) =>
        /\ \A i \in States : \A j \in States :
                (i < j /\ lists.altitude[i] > self.ground_altitude)
                    => lists.ground_reaction_force[j] = 0
        /\ \A i \in States :
                lists.ground_reaction_force[i] > 0
                    => lists.altitude[i] = self.ground_altitude

\* C26: compute_evolution (take-off and landing) writes only the trajectory
\* lists and the timers of the maneuver: the aircraft model and the configured
\* parameters of the maneuver (dt, nb_max_iterations, rotation speeds, trigger
\* speed, friction and parachute coefficients, ground and end-of-take-off
\* altitude) are the same after every step of a call as before it.
C26_EvolutionLeavesConfigurationAlone == [][self' = self /\ kind' = kind]_vars

\* a call of compute_evolution that iterated, wrote its lists and a timer, and
\* returned
C26_Witness ==
    /\ pc = "idle"
    /\ outcome = "returned"
    /\ calls > 0
    /\ Len(lists.time) > 3
    /\ \/ kind = "TakeOffManeuver" /\ rotation_start_time # None
       \/ kind = "LandingManeuver" /\ braking_start_time # None

\* C27: after a completed take-off run in which both rotation_start_time and
\* flight_start_time are set, rotation_start_time is strictly smaller than
\* flight_start_time, for any thrust schedule and aircraft model.
C27_RotationStartsBeforeFlight ==
    (/\ kind = "TakeOffManeuver"
     /\ pc = "idle"
     /\ outcome = "returned"
     /\ rotation_start_time # None
     /\ flight_start_time # None) =>
        rotation_start_time < flight_start_time

\* C28: in every landing run the recorded braking energies start at 0 and
\* never decrease up to the last recorded state, for every initial velocity,
\* incidence and thrust schedule.
C28_BrakingEnergyNonDecreasing ==
    (kind = "LandingManeuver" /\ Recorded) =>
        /\ lists.braking_energy[1] = 0
        /\ \A i \in States \ {1} :
                lists.braking_energy[i - 1] <= lists.braking_energy[i]

\* C29: in a take-off run, in every recorded state on the ground (phase
\* 'initial_acceleration' or 'rotation') the recorded incidence is at most the
\* max_ground_angle_of_incidence given to the constructor.
C29_GroundIncidenceAtMostMaxGroundAngle ==
    (kind = "TakeOffManeuver" /\ Recorded) =>
        \A i \in States :
            lists.phase[i] \in {"initial_acceleration", "rotation"}
                => lists.incidence[i] <= self.max_ground_angle_of_incidence

\* C30: stop_time is reset to None at the start of every landing run; after a
\* landing run that reached 'stopped' it holds the time recorded for the
\* 'stopped' state, and it is None only when the run was cut by the iteration
\* cap before stopping.
C30_StopTimeIsTimeOfStoppedState ==
    (kind = "LandingManeuver" /\ pc = "idle" /\ calls > 0) =>
        IF Last(lists.phase) = "stopped"
        THEN stop_time = Last(lists.time)
        ELSE stop_time = None

====
